---------------------------- MODULE Spec2Model ----------------------------
(***************************************************************************)
(* A model of go-rtq: the mock HTTP transport MockTransport of package rtq *)
(* (src/rtq.go).  A transport owns an ordered list of round-trip queues;   *)
(* RoundTrip finds the first non-exhausted queue whose match functions all *)
(* accept the request, logs the request, pops the head of that queue under *)
(* the transport's mutex and invokes the popped function outside of it.    *)
(***************************************************************************)
EXTENDS Integers, Sequences, FiniteSets, TLC

\* Number of goroutines that call RoundTrip on the shared transport.
NCallers == 2
\* Total number of RoundTrip calls made in one behaviour.
MaxCalls == 4

Callers == 1..NCallers

(***************************************************************************)
(* Requests (net/http.Request, as far as the match functions read it).     *)
(***************************************************************************)
ErrNotRegistered == "mock is not registered"
ErrRead == "body read error"
ErrMatcher == "matcher error"

\* A body stream: reading it consumes it; a failing stream ends in an error.
NewReader(s) == [data |-> s, consumed |-> FALSE, failing |-> FALSE]
FailingReader == [data |-> "", consumed |-> FALSE, failing |-> TRUE]

\* io.ReadAll: everything not yet read, and the stream's error if it has one.
ReadAll(b) ==
    [got |-> IF b.consumed THEN "" ELSE b.data,
     err |-> IF b.failing THEN ErrRead ELSE "",
     rest |-> [b EXCEPT !.consumed = TRUE]]

\* The first value stored under key k in a list of <<key, value>> pairs, or "".
RECURSIVE GetFrom(_, _, _)
GetFrom(kvs, k, i) ==
    IF i > Len(kvs) THEN ""
    ELSE IF kvs[i][1] = k THEN kvs[i][2]
    ELSE GetFrom(kvs, k, i + 1)

Get(kvs, k) == GetFrom(kvs, k, 1)

\* url.Values.Encode for the query of a URL: k=v pairs joined by &.
RECURSIVE EncodeFrom(_, _)
EncodeFrom(kvs, i) ==
    IF i > Len(kvs) THEN ""
    ELSE (IF i > 1 THEN "&" ELSE "") \o kvs[i][1] \o "=" \o kvs[i][2]
         \o EncodeFrom(kvs, i + 1)

\* url.URL.String
URLString(r) ==
    r.Scheme \o "://" \o r.Host \o r.Path
    \o (IF Len(r.Query) = 0 THEN "" ELSE "?" \o EncodeFrom(r.Query, 1))

NewRequest(method, scheme, host, path, query, header, body) ==
    [Method |-> method, Scheme |-> scheme, Host |-> host, Path |-> path,
     Query |-> query, Header |-> header, Body |-> body]

NoRequest == NewRequest("", "", "", "", <<>>, <<>>, NewReader(""))

(***************************************************************************)
(* Match functions.  A match function is kept as the data its closure      *)
(* captures: its kind, and the key and value it compares with.             *)
(***************************************************************************)
MatchFunc(kind, key, val) == [kind |-> kind, key |-> key, val |-> val]

MatchResult(m, err, r) == [m |-> m, err |-> err, req |-> r]

\* Caller-supplied match functions (RoundTripQueue.Matcher), by name.
CustomMatch(name, r) ==
    CASE name = "fail" -> MatchResult(FALSE, ErrMatcher, r)
      [] name = "deny" -> MatchResult(FALSE, "", r)
      [] OTHER -> MatchResult(TRUE, "", r)

\* A body match function that reads the body and does not put it back.
BodyMatchConsumes(body, r) ==
    LET x == ReadAll(r.Body) IN
    MatchResult(x.err = "" /\ x.got = body, x.err, [r EXCEPT !.Body = x.rest])

\* The body match function: read the whole body, put it back, compare.
BodyMatch(body, r) ==
    LET x == ReadAll(r.Body) IN
    IF x.err # "" THEN MatchResult(FALSE, x.err, [r EXCEPT !.Body = x.rest])
    ELSE MatchResult(x.got = body, "", [r EXCEPT !.Body = NewReader(x.got)])

\* One match function applied to a request.
Apply(f, r) ==
    CASE f.kind = "origin" -> MatchResult(r.Scheme \o "://" \o r.Host = f.val, "", r)
      [] f.kind = "header" -> MatchResult(Get(r.Header, f.key) = f.val, "", r)
      [] f.kind = "method" -> MatchResult(r.Method = f.val, "", r)
      [] f.kind = "path" -> MatchResult(r.Path = f.val, "", r)
      [] f.kind = "query" -> MatchResult(Get(r.Query, f.key) = f.val, "", r)
      [] f.kind = "body" -> BodyMatch(f.val, r)
      [] OTHER -> CustomMatch(f.val, r)

(***************************************************************************)
(* Round-trip queues and their builders.                                   *)
(***************************************************************************)
\* A queue built without the criterion on the origin.
NewAnyOrigin(origin) == [matchFuncs |-> <<>>, roundTripFuncs |-> <<>>]

New(origin) ==
    [matchFuncs |-> <<MatchFunc("origin", "", origin)>>, roundTripFuncs |-> <<>>]

Header(q, key, value) ==
    [q EXCEPT !.matchFuncs = Append(@, MatchFunc("header", key, value))]

method(q, m) == [q EXCEPT !.matchFuncs = Append(@, MatchFunc("method", "", m))]

path(q, p) == [q EXCEPT !.matchFuncs = Append(@, MatchFunc("path", "", p))]

GetPath(q, p) == path(method(q, "GET"), p)

Post(q, p) == path(method(q, "POST"), p)

Query(q, key, value) ==
    [q EXCEPT !.matchFuncs = Append(@, MatchFunc("query", key, value))]

BodyString(q, body) ==
    [q EXCEPT !.matchFuncs = Append(@, MatchFunc("body", "", body))]

Matcher(q, name) ==
    [q EXCEPT !.matchFuncs = Append(@, MatchFunc("custom", "", name))]

\* A round-trip function, kept as the status code and body its closure captures.
RoundTripFunc(statusCode, body) == [statusCode |-> statusCode, body |-> body]

NoFunc == RoundTripFunc(0, "")

ResponseSimple(q, statusCode, body) ==
    [q EXCEPT !.roundTripFuncs = Append(@, RoundTripFunc(statusCode, body))]

HTTPResponse(statusCode, body, r) ==
    [StatusCode |-> statusCode, Body |-> body, Request |-> r]

NoResponse == HTTPResponse(0, "", NoRequest)

\* Calling a round-trip function built by ResponseSimple.
Invoke(f, r) == [resp |-> HTTPResponse(f.statusCode, f.body, r), err |-> ""]

\* RoundTripQueue.match: every match function in turn, stopping at the first
\* error or the first one that rejects.
RECURSIVE matchFrom(_, _, _)
matchFrom(fs, i, r) ==
    IF i > Len(fs) THEN MatchResult(TRUE, "", r)
    ELSE LET x == Apply(fs[i], r) IN
         IF x.err # "" THEN MatchResult(FALSE, x.err, x.req)
         ELSE IF ~x.m THEN MatchResult(FALSE, "", x.req)
         ELSE matchFrom(fs, i + 1, x.req)

\* A match that looks at the first criterion only.
matchOriginOnly(q, r) == Apply(q.matchFuncs[1], r)

\* A match that takes a criterion's error for a plain rejection.
matchSwallowsError(q, r) ==
    LET x == matchFrom(q.matchFuncs, 1, r) IN MatchResult(x.m, "", x.req)

match(q, r) == matchFrom(q.matchFuncs, 1, r)

FindResult(q, found, err, r) == [q |-> q, found |-> found, err |-> err, req |-> r]

\* MockTransport.find: the first queue that is not empty and matches.
RECURSIVE findFrom(_, _, _)
findFrom(qs, i, r) ==
    IF i > Len(qs) THEN FindResult(0, FALSE, "", r)
    ELSE IF Len(qs[i].roundTripFuncs) # 0
         THEN LET x == match(qs[i], r) IN
              IF x.err # "" THEN FindResult(0, FALSE, x.err, x.req)
              ELSE IF x.m THEN FindResult(i, TRUE, "", x.req)
              ELSE findFrom(qs, i + 1, x.req)
         ELSE findFrom(qs, i + 1, r)

\* A scan that does not skip the queues that are empty.
RECURSIVE findNoSkipFrom(_, _, _)
findNoSkipFrom(qs, i, r) ==
    IF i > Len(qs) THEN FindResult(0, FALSE, "", r)
    ELSE LET x == match(qs[i], r) IN
         IF x.err # "" THEN FindResult(0, FALSE, x.err, x.req)
         ELSE IF x.m THEN FindResult(i, TRUE, "", x.req)
         ELSE findNoSkipFrom(qs, i + 1, x.req)

findNoSkip(qs, r) == findNoSkipFrom(qs, 1, r)

\* A scan that takes the first queue that is not empty, matching or not.
findFirstNonEmpty(qs, r) ==
    LET S == {i \in 1..Len(qs) : Len(qs[i].roundTripFuncs) # 0} IN
    IF S = {} THEN FindResult(0, FALSE, "", r)
    ELSE FindResult(CHOOSE i \in S : \A j \in S : i <= j, TRUE, "", r)

\* A scan that takes the last queue that is not empty and matches.
findLast(qs, r) ==
    LET x == findFrom(qs, 1, r)
        S == {i \in 1..Len(qs) : Len(qs[i].roundTripFuncs) # 0 /\ match(qs[i], r).m}
    IN IF x.found THEN FindResult(CHOOSE i \in S : \A j \in S : j <= i, TRUE, "", x.req)
       ELSE x

find(qs, r) == findFrom(qs, 1, r)

(***************************************************************************)
(* The transports and the requests of the scenarios checked.               *)
(***************************************************************************)
OriginA == "http://a"
OriginB == "http://b"

\* A POST queue ahead of a catch-all queue of three responses, and a queue
\* of another origin.
SetupFifo ==
    <<ResponseSimple(Post(New(OriginA), "/x"), 200, "p1"),
      ResponseSimple(ResponseSimple(ResponseSimple(New(OriginA), 200, "c1"), 200, "c2"), 200, "c3"),
      ResponseSimple(New(OriginB), 201, "b1")>>

\* One queue per kind of criterion, then a queue registered empty and a
\* catch-all queue behind it.
SetupCriteria ==
    <<ResponseSimple(GetPath(Header(New(OriginA), "Authorization", "t"), "/x"), 200, "h1"),
      ResponseSimple(Query(New(OriginA), "k", "h"), 200, "q1"),
      ResponseSimple(BodyString(New(OriginA), "b"), 200, "d1"),
      New(OriginA),
      ResponseSimple(New(OriginA), 200, "e1")>>

\* A queue whose caller-supplied matcher fails, between two catch-all queues.
SetupFailing ==
    <<ResponseSimple(New(OriginA), 200, "c1"),
      ResponseSimple(Matcher(New(OriginA), "fail"), 200, "m1"),
      ResponseSimple(New(OriginA), 200, "c2")>>

\* Queues that all match every request to the origin (TestMockTransportParallel),
\* the last one through a caller-supplied matcher.
SetupParallel ==
    <<ResponseSimple(ResponseSimple(New(OriginA), 200, "c1"), 200, "c2"),
      ResponseSimple(Matcher(New(OriginA), "allow"), 200, "c3")>>

\* A queue that reads the body, ahead of two catch-all queues.
SetupOrder ==
    <<ResponseSimple(BodyString(New(OriginA), "b"), 200, "d1"),
      ResponseSimple(ResponseSimple(New(OriginA), 200, "c1"), 200, "c2"),
      ResponseSimple(New(OriginA), 200, "c3")>>

ReqPlain == NewRequest("GET", "http", "a", "/x", <<>>, <<>>, NewReader(""))
ReqPost == NewRequest("POST", "http", "a", "/x", <<>>, <<>>, NewReader("b"))
ReqAuth ==
    NewRequest("GET", "http", "a", "/x", <<<<"k", "h">>>>,
               <<<<"Authorization", "t">>>>, NewReader(""))
ReqOther == NewRequest("GET", "http", "b", "/y", <<>>, <<>>, NewReader(""))
ReqNoOrigin == NewRequest("GET", "http", "c", "/x", <<>>, <<>>, NewReader(""))
ReqBadBody == NewRequest("POST", "http", "a", "/y", <<>>, <<>>, FailingReader)
ReqOtherBody == NewRequest("POST", "http", "a", "/x", <<>>, <<>>, NewReader("z"))

\* A test scenario: the queues passed to NewTransport and the requests the client
\* under test may send.
Scenario(qs, rs) == [queues |-> qs, requests |-> rs]

Scenarios ==
    {Scenario(SetupFifo, {ReqPlain, ReqPost, ReqNoOrigin}),
     Scenario(SetupCriteria, {ReqPost, ReqAuth, ReqBadBody}),
     Scenario(SetupFailing, {ReqPlain, ReqOther}),
     Scenario(SetupParallel, {ReqPlain, ReqPost}),
     Scenario(SetupOrder, {ReqPost, ReqBadBody, ReqOtherBody})}

(***************************************************************************)
(* The state.                                                              *)
(***************************************************************************)
VARIABLES
    queues,       \* MockTransport.queues
    requestLogs,  \* MockTransport.requestLogs
    mu,           \* MockTransport.mu: 0, or the caller that holds it
    pc,           \* where each caller is inside RoundTrip
    req,          \* the request each caller passed to RoundTrip
    loc,          \* dequeue's locals of each caller: q, found, err, roundTrip
    ret,          \* what RoundTrip returns to each caller
    pre,          \* history: queues, log and request as the caller's last call began
    setup,        \* history: the queues as passed to NewTransport
    pool,         \* the requests the client under test may send
    handed,       \* history: the round-trip functions read off a queue head
    arrived,      \* history: the requests, in the order their calls took the mutex
    nret,         \* history: RoundTrip calls returned
    nerr          \* history: RoundTrip calls returned with an error

\* A queue under construction and a request put to its match, for the claims
\* about RoundTripQueue.match alone.
VARIABLES
    built,        \* the RoundTripQueue value the builder calls have produced
    declared,     \* history: the builder calls made on it, in order
    probe,        \* the request put to match
    verdict       \* what match returned for it

\* A goroutine that calls Completed() while the callers call RoundTrip.
VARIABLES
    opc,          \* where the observer is inside Completed()
    oi,           \* the queue lo.SumBy is at
    remaining,    \* Completed's local: the sum so far
    oret,         \* what Completed() returned: "", "true" or "false"
    oinv,         \* history: queues and log as Completed() was invoked
    seen,         \* history: the values the completed-condition took during the call
    nchecks       \* history: the calls of Completed() made

\* The map-based transport RoundTripQueues of package rtqueue (src/rtqueue.go)
\* and the goroutines that call its RoundTrip.
VARIABLES
    heap,         \* the *RoundTripQueue objects the test has built, by address
    mocks,        \* RoundTripQueues.queues: origin -> list of queue addresses
    unmatched,    \* RoundTripQueues.unmatchRequests
    qpc,          \* where each caller is inside RoundTrip
    qreq,         \* the request each caller passed to RoundTrip
    qloc,         \* RoundTrip's locals of each caller: q, roundTrip, the slice read
    qret,         \* what RoundTrip returns to each caller
    built0,       \* history: the queue objects as the test built them
    served,       \* history: the entries read off a queue head
    refused,      \* history: RoundTrip calls that found no queue and returned
    qcalls,       \* history: RoundTrip calls started
    lastSet,      \* history: the last SetMock call, with the map before it
    nsets         \* history: the SetMock calls made

\* The queue values a test builds and holds, the backing arrays of their
\* slices, and the transports the test hands its values to.
VARIABLES
    arrays,       \* the backing arrays of the slices, by address
    objs,         \* the RoundTripQueue structs, by address
    held,         \* the addresses of the queue values the test holds, oldest first
    made,         \* history: each held value's contents as its call returned it
    derived,      \* history: the base and the builder call each held value came from
    tqueues,      \* MockTransport.queues of each transport: addresses of structs
    tlogs,        \* MockTransport.requestLogs of each transport
    given,        \* history: the held values passed to NewTransport, per transport
    drawn         \* history: the functions each transport handed out, in order

transportVars ==
    <<queues, requestLogs, mu, pc, req, loc, ret, pre, setup, pool, handed,
      arrived, nret, nerr>>

matchVars == <<built, declared, probe, verdict>>

observerVars == <<opc, oi, remaining, oret, oinv, seen, nchecks>>

rtqueueVars ==
    <<heap, mocks, unmatched, qpc, qreq, qloc, qret, built0, served, refused,
      qcalls, lastSet, nsets>>

valueVars == <<arrays, objs, held, made, derived, tqueues, tlogs, given, drawn>>

vars == <<transportVars, matchVars, observerVars, rtqueueVars, valueVars>>

\* RoundTrip calls started.
ncalls == Len(arrived)

requestLog(matched, r) == [matched |-> matched, request |-> r]

NoLocals == [q |-> 0, found |-> FALSE, err |-> "", roundTrip |-> NoFunc]
NoReturn == [resp |-> NoResponse, err |-> ""]
NoSnapshot == [queues |-> <<>>, requestLogs |-> <<>>, req |-> NoRequest]

NoVerdict == MatchResult(FALSE, "", NoRequest)

\* No queue is being built outside of the transport.
NoQueueBuilt ==
    /\ built = NewAnyOrigin("")
    /\ declared = <<>>
    /\ probe = NoRequest
    /\ verdict = NoVerdict

\* No goroutine is calling Completed().
NoObserver ==
    /\ opc = "idle"
    /\ oi = 0
    /\ remaining = 0
    /\ oret = ""
    /\ oinv = [queues |-> <<>>, requestLogs |-> <<>>]
    /\ seen = {}
    /\ nchecks = 0

NoQLocals == [q |-> 0, roundTrip |-> NoFunc, slice |-> <<>>]

NoSetMock == [origin |-> "", list |-> <<>>, before |-> <<>>]

\* Package rtqueue is not in use.
NoMocks ==
    /\ heap = <<>>
    /\ mocks = <<>>
    /\ unmatched = <<>>
    /\ qpc = [p \in Callers |-> "idle"]
    /\ qreq = [p \in Callers |-> NoRequest]
    /\ qloc = [p \in Callers |-> NoQLocals]
    /\ qret = [p \in Callers |-> NoReturn]
    /\ built0 = <<>>
    /\ served = <<>>
    /\ refused = 0
    /\ qcalls = 0
    /\ lastSet = NoSetMock
    /\ nsets = 0

\* The two transports a test may hand the same queue values to.
Transports == 1..2

\* The test holds no queue value of its own.
NoValues ==
    /\ arrays = <<>>
    /\ objs = <<>>
    /\ held = <<>>
    /\ made = <<>>
    /\ derived = <<>>
    /\ tqueues = [t \in Transports |-> <<>>]
    /\ tlogs = [t \in Transports |-> <<>>]
    /\ given = [t \in Transports |-> <<>>]
    /\ drawn = [t \in Transports |-> <<>>]

\* NewTransport(queues...)
NewTransport(qs) ==
    /\ queues = qs
    /\ requestLogs = <<>>
    /\ mu = 0

Init ==
    /\ \E s \in Scenarios :
          NewTransport(s.queues) /\ setup = s.queues /\ pool = s.requests
    /\ pc = [p \in Callers |-> "idle"]
    /\ req = [p \in Callers |-> NoRequest]
    /\ loc = [p \in Callers |-> NoLocals]
    /\ ret = [p \in Callers |-> NoReturn]
    /\ pre = [p \in Callers |-> NoSnapshot]
    /\ handed = <<>>
    /\ arrived = <<>>
    /\ nret = 0
    /\ nerr = 0
    /\ NoQueueBuilt
    /\ NoObserver
    /\ NoMocks
    /\ NoValues

(***************************************************************************)
(* RoundTrip, one action per step of a caller.                             *)
(***************************************************************************)
\* A mutex that never makes a caller wait.
MutexAlwaysFree == TRUE

\* sync.Mutex: Lock returns only while no caller holds the mutex.
MutexFree == mu = 0

\* RoundTrip(r) calls dequeue(r), which takes the mutex.
Lock(p, r) ==
    /\ pc[p] = "idle"
    /\ r \in pool
    /\ ncalls < MaxCalls
    /\ MutexFree
    /\ mu' = p
    /\ req' = [req EXCEPT ![p] = r]
    /\ pre' = [pre EXCEPT ![p] = [queues |-> queues, requestLogs |-> requestLogs, req |-> r]]
    /\ pc' = [pc EXCEPT ![p] = "find"]
    /\ arrived' = Append(arrived, r)
    /\ ret' = [ret EXCEPT ![p] = NoReturn]
    /\ UNCHANGED <<queues, requestLogs, loc, setup, pool, handed, nret, nerr>>

\* q, found, err := m.find(req); a matcher's error returns at once.
Find(p) ==
    /\ pc[p] = "find"
    /\ LET x == find(queues, req[p]) IN
       /\ loc' = [loc EXCEPT ![p] = [q |-> x.q, found |-> x.found, err |-> x.err,
                                     roundTrip |-> NoFunc]]
       /\ req' = [req EXCEPT ![p] = x.req]
       /\ pc' = [pc EXCEPT ![p] = IF x.err # "" THEN "unlock" ELSE "log"]
    /\ UNCHANGED <<queues, requestLogs, mu, ret, pre, setup, pool, handed, arrived, nret, nerr>>

\* The log append with the mutex released right after it, before the pop.
LogReleasesMutex(p) ==
    /\ pc[p] = "log"
    /\ requestLogs' = Append(requestLogs, requestLog(loc[p].found, req[p]))
    /\ loc' = [loc EXCEPT ![p].err = IF loc[p].found THEN "" ELSE ErrNotRegistered]
    /\ pc' = [pc EXCEPT ![p] = IF loc[p].found THEN "head" ELSE "unlock"]
    /\ mu' = 0
    /\ UNCHANGED <<queues, req, ret, pre, setup, pool, handed, arrived, nret, nerr>>

\* A log that records only the requests that matched.
LogSkipsUnmatched(p) ==
    /\ pc[p] = "log"
    /\ requestLogs' = IF loc[p].found
                      THEN Append(requestLogs, requestLog(TRUE, req[p]))
                      ELSE requestLogs
    /\ loc' = [loc EXCEPT ![p].err = IF loc[p].found THEN "" ELSE ErrNotRegistered]
    /\ pc' = [pc EXCEPT ![p] = IF loc[p].found THEN "head" ELSE "unlock"]
    /\ UNCHANGED <<queues, mu, req, ret, pre, setup, pool, handed, arrived, nret, nerr>>

\* A log that keeps only its latest record.
LogKeepsLatest(p) ==
    /\ pc[p] = "log"
    /\ requestLogs' = <<requestLog(loc[p].found, req[p])>>
    /\ loc' = [loc EXCEPT ![p].err = IF loc[p].found THEN "" ELSE ErrNotRegistered]
    /\ pc' = [pc EXCEPT ![p] = IF loc[p].found THEN "head" ELSE "unlock"]
    /\ UNCHANGED <<queues, mu, req, ret, pre, setup, pool, handed, arrived, nret, nerr>>

\* m.requestLogs = append(m.requestLogs, ...), matched or not.
Log(p) ==
    /\ pc[p] = "log"
    /\ requestLogs' = Append(requestLogs, requestLog(loc[p].found, req[p]))
    /\ loc' = [loc EXCEPT ![p].err = IF loc[p].found THEN "" ELSE ErrNotRegistered]
    /\ pc' = [pc EXCEPT ![p] = IF loc[p].found THEN "head" ELSE "unlock"]
    /\ UNCHANGED <<queues, mu, req, ret, pre, setup, pool, handed, arrived, nret, nerr>>

\* Reading the last function of the queue instead of the first.
ReadLast(p) ==
    /\ pc[p] = "head"
    /\ LET fs == queues[loc[p].q].roundTripFuncs IN
       /\ Len(fs) > 0
       /\ loc' = [loc EXCEPT ![p].roundTrip = fs[Len(fs)]]
       /\ handed' = Append(handed, [caller |-> p, q |-> loc[p].q, f |-> fs[Len(fs)]])
    /\ pc' = [pc EXCEPT ![p] = "pop"]
    /\ UNCHANGED <<queues, requestLogs, mu, req, ret, pre, setup, pool, arrived, nret, nerr>>

\* roundTrip := q.roundTripFuncs[0]
\* Indexing an empty slice panics, and the deferred Unlock runs as it unwinds.
ReadHead(p) ==
    /\ pc[p] = "head"
    /\ IF Len(queues[loc[p].q].roundTripFuncs) = 0
       THEN /\ pc' = [pc EXCEPT ![p] = "panic"]
            /\ mu' = 0
            /\ UNCHANGED <<loc, handed>>
       ELSE /\ loc' = [loc EXCEPT ![p].roundTrip = queues[loc[p].q].roundTripFuncs[1]]
            /\ handed' = Append(handed, [caller |-> p, q |-> loc[p].q,
                                         f |-> queues[loc[p].q].roundTripFuncs[1]])
            /\ pc' = [pc EXCEPT ![p] = "pop"]
            /\ UNCHANGED mu
    /\ UNCHANGED <<queues, requestLogs, req, ret, pre, setup, pool, arrived, nret, nerr>>

\* A pop that leaves the queue as it is.
PopKeepsHead(p) ==
    /\ pc[p] = "pop"
    /\ pc' = [pc EXCEPT ![p] = "unlock"]
    /\ UNCHANGED <<queues, mu, requestLogs, req, loc, ret, pre, setup, pool, handed,
                   arrived, nret, nerr>>

\* q.roundTripFuncs = q.roundTripFuncs[1:]
\* Slicing an empty slice from 1 panics, and the deferred Unlock runs.
Pop(p) ==
    /\ pc[p] = "pop"
    /\ IF Len(queues[loc[p].q].roundTripFuncs) = 0
       THEN /\ pc' = [pc EXCEPT ![p] = "panic"]
            /\ mu' = 0
            /\ UNCHANGED queues
       ELSE /\ queues' = [queues EXCEPT ![loc[p].q].roundTripFuncs = Tail(@)]
            /\ pc' = [pc EXCEPT ![p] = "unlock"]
            /\ UNCHANGED mu
    /\ UNCHANGED <<requestLogs, req, loc, ret, pre, setup, pool, handed, arrived, nret, nerr>>

\* A return from dequeue that releases the mutex only when it returns a function.
UnlockOnSuccessOnly(p) ==
    /\ pc[p] = "unlock"
    /\ IF loc[p].err # ""
       THEN /\ ret' = [ret EXCEPT ![p] = [resp |-> NoResponse, err |-> loc[p].err]]
            /\ pc' = [pc EXCEPT ![p] = "idle"]
            /\ req' = [req EXCEPT ![p] = NoRequest]
            /\ loc' = [loc EXCEPT ![p] = NoLocals]
            /\ nret' = nret + 1
            /\ nerr' = nerr + 1
            /\ UNCHANGED mu
       ELSE /\ pc' = [pc EXCEPT ![p] = "invoke"]
            /\ mu' = 0
            /\ UNCHANGED <<ret, req, loc, nret, nerr>>
    /\ UNCHANGED <<queues, requestLogs, pre, setup, pool, handed, arrived>>

\* The deferred m.mu.Unlock() as dequeue returns.  RoundTrip returns an error
\* of dequeue to its caller as it is.
Unlock(p) ==
    /\ pc[p] = "unlock"
    /\ mu' = 0
    /\ IF loc[p].err # ""
       THEN /\ ret' = [ret EXCEPT ![p] = [resp |-> NoResponse, err |-> loc[p].err]]
            /\ pc' = [pc EXCEPT ![p] = "idle"]
            /\ req' = [req EXCEPT ![p] = NoRequest]
            /\ loc' = [loc EXCEPT ![p] = NoLocals]
            /\ nret' = nret + 1
            /\ nerr' = nerr + 1
       ELSE /\ pc' = [pc EXCEPT ![p] = "invoke"]
            /\ UNCHANGED <<ret, req, loc, nret, nerr>>
    /\ UNCHANGED <<queues, requestLogs, pre, setup, pool, handed, arrived>>

\* return roundTrip(req): the popped function runs outside the mutex and its
\* result goes to the caller, who is then free to call again.
Call(p) ==
    /\ pc[p] = "invoke"
    /\ ret' = [ret EXCEPT ![p] = Invoke(loc[p].roundTrip, req[p])]
    /\ pc' = [pc EXCEPT ![p] = "idle"]
    /\ req' = [req EXCEPT ![p] = NoRequest]
    /\ loc' = [loc EXCEPT ![p] = NoLocals]
    /\ nret' = nret + 1
    /\ nerr' = IF Invoke(loc[p].roundTrip, req[p]).err # "" THEN nerr + 1 ELSE nerr
    /\ UNCHANGED <<queues, requestLogs, mu, pre, setup, pool, handed, arrived>>

Next ==
    \/ \E p \in Callers, r \in pool : Lock(p, r) /\ UNCHANGED <<matchVars, observerVars, rtqueueVars, valueVars>>
    \/ \E p \in Callers : Find(p) /\ UNCHANGED <<matchVars, observerVars, rtqueueVars, valueVars>>
    \/ \E p \in Callers : Log(p) /\ UNCHANGED <<matchVars, observerVars, rtqueueVars, valueVars>>
    \/ \E p \in Callers : ReadHead(p) /\ UNCHANGED <<matchVars, observerVars, rtqueueVars, valueVars>>
    \/ \E p \in Callers : Pop(p) /\ UNCHANGED <<matchVars, observerVars, rtqueueVars, valueVars>>
    \/ \E p \in Callers : Unlock(p) /\ UNCHANGED <<matchVars, observerVars, rtqueueVars, valueVars>>
    \/ \E p \in Callers : Call(p) /\ UNCHANGED <<matchVars, observerVars, rtqueueVars, valueVars>>

Spec == Init /\ [][Next]_vars


(***************************************************************************)
(* RoundTripQueue.match on its own: a queue is built by builder calls, then *)
(* a request is put to its match.                                          *)
(***************************************************************************)
\* Builder calls made on one queue value.
MaxCriteria == 3

BuilderCall(name, key, val) == [name |-> name, key |-> key, val |-> val]

BuilderCalls ==
    {BuilderCall("Header", "Authorization", "t"),
     BuilderCall("Get", "", "/x"),
     BuilderCall("Post", "", "/x"),
     BuilderCall("Query", "k", "h"),
     BuilderCall("BodyString", "", "b"),
     BuilderCall("Matcher", "", "fail"),
     BuilderCall("Matcher", "", "deny")}

Probes == {ReqPlain, ReqPost, ReqAuth, ReqOther, ReqBadBody, ReqOtherBody}

NoTransport ==
    /\ NewTransport(<<>>)
    /\ setup = <<>>
    /\ pool = {}
    /\ pc = [p \in Callers |-> "idle"]
    /\ req = [p \in Callers |-> NoRequest]
    /\ loc = [p \in Callers |-> NoLocals]
    /\ ret = [p \in Callers |-> NoReturn]
    /\ pre = [p \in Callers |-> NoSnapshot]
    /\ handed = <<>>
    /\ arrived = <<>>
    /\ nret = 0
    /\ nerr = 0

\* q := New(origin), and the request a test will send.
InitMatch ==
    /\ \E origin \in {OriginA, OriginB} : built = New(origin)
    /\ declared = <<>>
    /\ probe \in Probes
    /\ verdict = NoVerdict
    /\ NoTransport
    /\ NoObserver
    /\ NoMocks
    /\ NoValues

\* One builder call on a queue value.
Build(q, c) ==
    CASE c.name = "Header" -> Header(q, c.key, c.val)
      [] c.name = "Get" -> GetPath(q, c.val)
      [] c.name = "Post" -> Post(q, c.val)
      [] c.name = "Query" -> Query(q, c.key, c.val)
      [] c.name = "BodyString" -> BodyString(q, c.val)
      [] OTHER -> Matcher(q, c.val)

\* q = q.Header(...), q.Get(...), ...: one more criterion declared.
Declare(c) ==
    /\ verdict = NoVerdict
    /\ Len(declared) < MaxCriteria
    /\ built' = Build(built, c)
    /\ declared' = Append(declared, c)
    /\ UNCHANGED <<probe, verdict, transportVars, observerVars, rtqueueVars, valueVars>>

\* q.match(req)
MatchRequest ==
    /\ verdict = NoVerdict
    /\ verdict' = match(built, probe)
    /\ UNCHANGED <<built, declared, probe, transportVars, observerVars, rtqueueVars, valueVars>>

NextMatch ==
    \/ \E c \in BuilderCalls : Declare(c)
    \/ MatchRequest

SpecMatch == InitMatch /\ [][NextMatch]_vars

(***************************************************************************)
(* The inspection API.                                                     *)
(***************************************************************************)
\* lo.SumBy over the queues of len(q.roundTripFuncs)
RECURSIVE SumLen(_, _)
SumLen(qs, i) ==
    IF i > Len(qs) THEN 0 ELSE Len(qs[i].roundTripFuncs) + SumLen(qs, i + 1)

\* MockTransport.unmatchRequests: the requests of the records not matched.
RECURSIVE unmatchFrom(_, _)
unmatchFrom(logs, i) ==
    IF i > Len(logs) THEN <<>>
    ELSE (IF logs[i].matched THEN <<>> ELSE <<logs[i].request>>)
         \o unmatchFrom(logs, i + 1)

unmatchRequests == unmatchFrom(requestLogs, 1)

\* Completed() without the check of the unmatched requests.
CompletedIgnoresLog == SumLen(queues, 1) = 0

\* MockTransport.Completed
Completed == SumLen(queues, 1) = 0 /\ Len(unmatchRequests) = 0

\* requestLog.String
LogString(l) ==
    l.request.Method \o " " \o URLString(l.request)
    \o (IF l.matched THEN "" ELSE " (not matched)")

\* MockTransport.RequestLogString, as the list of its lines (joined by "\n").
RequestLogLines ==
    [i \in 1..Len(requestLogs) |-> ToString(i) \o ": " \o LogString(requestLogs[i])]

(***************************************************************************)
(* Completed() called by a goroutine of its own while the callers call     *)
(* RoundTrip.  Completed() takes no lock: its reads of the queues and of   *)
(* the log race with the writes dequeue makes under the mutex.             *)
(***************************************************************************)
\* Calls of Completed() made by the observer.
MaxChecks == 2

ObservedScenarios == {Scenario(SetupParallel, {ReqPlain, ReqOther})}

InitObserved ==
    /\ \E s \in ObservedScenarios :
          NewTransport(s.queues) /\ setup = s.queues /\ pool = s.requests
    /\ pc = [p \in Callers |-> "idle"]
    /\ req = [p \in Callers |-> NoRequest]
    /\ loc = [p \in Callers |-> NoLocals]
    /\ ret = [p \in Callers |-> NoReturn]
    /\ pre = [p \in Callers |-> NoSnapshot]
    /\ handed = <<>>
    /\ arrived = <<>>
    /\ nret = 0
    /\ nerr = 0
    /\ NoQueueBuilt
    /\ NoObserver
    /\ NoMocks
    /\ NoValues

Bool(b) == IF b THEN "true" ELSE "false"

\* What a read that races with writes may return, where the value only moves
\* from old to new: the value as the call began, the value now, or one between.
RacyRead(old, new) == IF old <= new THEN old..new ELSE new..old

\* m.Completed() is called.
CompletedCall ==
    /\ opc = "idle"
    /\ nchecks < MaxChecks
    /\ opc' = "sum"
    /\ oi' = 1
    /\ remaining' = 0
    /\ oret' = ""
    /\ oinv' = [queues |-> queues, requestLogs |-> requestLogs]
    /\ seen' = {Bool(Completed)}
    /\ nchecks' = nchecks + 1
    /\ UNCHANGED <<transportVars, matchVars, rtqueueVars, valueVars>>

\* lo.SumBy: len(q.roundTripFuncs) of the next queue is read and added.
SumBy ==
    /\ opc = "sum"
    /\ oi <= Len(queues)
    /\ \E n \in RacyRead(Len(oinv.queues[oi].roundTripFuncs), Len(queues[oi].roundTripFuncs)) :
          remaining' = remaining + n
    /\ oi' = oi + 1
    /\ UNCHANGED <<opc, oret, oinv, seen, nchecks, transportVars, matchVars, rtqueueVars, valueVars>>

\* return remaining == 0 && len(m.unmatchRequests()) == 0
\* The log is read only when remaining is 0.
CompletedReturn ==
    /\ opc = "sum"
    /\ oi > Len(queues)
    /\ IF remaining # 0
       THEN oret' = "false"
       ELSE \E n \in RacyRead(Len(oinv.requestLogs), Len(requestLogs)) :
               oret' = Bool(Len(unmatchFrom(SubSeq(requestLogs, 1, n), 1)) = 0)
    /\ opc' = "idle"
    /\ UNCHANGED <<oi, remaining, oinv, seen, nchecks, transportVars, matchVars, rtqueueVars, valueVars>>

\* A step of a caller, and what it makes of the completed-condition, noted
\* while a call of Completed() is under way.
Watch ==
    /\ seen' = IF opc = "idle" THEN seen ELSE seen \cup {Bool(Completed')}
    /\ UNCHANGED <<opc, oi, remaining, oret, oinv, nchecks, matchVars, rtqueueVars, valueVars>>

NextObserved ==
    \/ \E p \in Callers, r \in pool : Lock(p, r) /\ Watch
    \/ \E p \in Callers : Find(p) /\ Watch
    \/ \E p \in Callers : Log(p) /\ Watch
    \/ \E p \in Callers : ReadHead(p) /\ Watch
    \/ \E p \in Callers : Pop(p) /\ Watch
    \/ \E p \in Callers : Unlock(p) /\ Watch
    \/ \E p \in Callers : Call(p) /\ Watch
    \/ CompletedCall
    \/ SumBy
    \/ CompletedReturn

SpecObserved == InitObserved /\ [][NextObserved]_vars

(***************************************************************************)
(* Package rtqueue (src/rtqueue.go): RoundTripQueues keeps, for each       *)
(* origin, a list of pointers to queues, and has no mutex.  Its RoundTrip  *)
(* is modelled one read or write of the shared state at a time.            *)
(***************************************************************************)
\* RoundTrip calls made on the RoundTripQueues in one behaviour.
MaxQCalls == 3
\* SetMock calls made in one behaviour.
MaxSetMocks == 3

\* A pointer that is nil, or one that points to v.
Nil == <<>>
Ptr(v) == <<v>>

rtqueue_New ==
    [request |-> [header |-> <<>>, query |-> <<>>, method |-> Nil, url |-> Nil,
                  body |-> Nil],
     roundTrips |-> <<>>]

rtqueue_method(q, m) == [q EXCEPT !.request.method = Ptr(m)]

rtqueue_path(q, pth) == [q EXCEPT !.request.url = Ptr(pth)]

rtqueue_Post(q, pth) == rtqueue_path(rtqueue_method(q, "POST"), pth)

rtqueue_BodyString(q, body) == [q EXCEPT !.request.body = Ptr(NewReader(body))]

rtqueue_ResponseSimple(q, statusCode, body) ==
    [q EXCEPT !.roundTrips = Append(@, RoundTripFunc(statusCode, body))]

\* origin(u): u.Scheme + "://" + u.Host
rtqueue_origin(r) == r.Scheme \o "://" \o r.Host

\* The keys of a list of <<key, value>> pairs.
Keys(kvs) == {kvs[i][1] : i \in 1..Len(kvs)}

\* RoundTripQueue.matchBody: both bodies are read to their end and put back;
\* a read that fails panics.
rtqueue_matchBody(q, r) ==
    IF q.request.body = Nil
    THEN [ok |-> TRUE, panic |-> FALSE, req |-> r, q |-> q]
    ELSE LET bl == ReadAll(r.Body)
             br == ReadAll(q.request.body[1])
         IN IF bl.err # ""
            THEN [ok |-> FALSE, panic |-> TRUE, req |-> [r EXCEPT !.Body = bl.rest], q |-> q]
            ELSE [ok |-> bl.got = br.got, panic |-> FALSE,
                  req |-> [r EXCEPT !.Body = NewReader(bl.got)],
                  q |-> [q EXCEPT !.request.body = Ptr(NewReader(br.got))]]

\* The predicate find passes to lo.Find: headers, queries, method, path and
\* body in this order, and last of all whether the queue still has entries.
rtqueue_matches(q, r) ==
    IF \E k \in Keys(q.request.header) : Get(q.request.header, k) # Get(r.Header, k)
    THEN [ok |-> FALSE, panic |-> FALSE, req |-> r, q |-> q]
    ELSE IF \E k \in Keys(q.request.query) : Get(q.request.query, k) # Get(r.Query, k)
    THEN [ok |-> FALSE, panic |-> FALSE, req |-> r, q |-> q]
    ELSE IF q.request.method # Nil /\ q.request.method[1] # r.Method
    THEN [ok |-> FALSE, panic |-> FALSE, req |-> r, q |-> q]
    ELSE IF q.request.url # Nil /\ q.request.url[1] # r.Path
    THEN [ok |-> FALSE, panic |-> FALSE, req |-> r, q |-> q]
    ELSE LET b == rtqueue_matchBody(q, r) IN
         IF b.panic \/ ~b.ok THEN b
         ELSE [b EXCEPT !.ok = Len(q.roundTrips) # 0]

\* qs.queues[origin]: the list registered for the origin, nil if there is none.
Registered(m, o) == IF o \in DOMAIN m THEN m[o] ELSE <<>>

\* lo.Find over the list: the first queue the predicate accepts.
RECURSIVE rtqueue_findFrom(_, _, _, _)
rtqueue_findFrom(list, i, h, r) ==
    IF i > Len(list) THEN [q |-> 0, ok |-> FALSE, panic |-> FALSE, req |-> r, heap |-> h]
    ELSE LET x == rtqueue_matches(h[list[i]], r)
             h2 == [h EXCEPT ![list[i]] = x.q]
         IN IF x.panic THEN [q |-> 0, ok |-> FALSE, panic |-> TRUE, req |-> x.req, heap |-> h2]
            ELSE IF x.ok THEN [q |-> list[i], ok |-> TRUE, panic |-> FALSE, req |-> x.req, heap |-> h2]
            ELSE rtqueue_findFrom(list, i + 1, h2, x.req)

\* RoundTripQueues.find
rtqueue_find(m, h, r) == rtqueue_findFrom(Registered(m, rtqueue_origin(r)), 1, h, r)

\* The queues a test builds, by address.
QueueObjects ==
    <<rtqueue_ResponseSimple(rtqueue_ResponseSimple(rtqueue_New, 200, "a1"), 200, "a2"),
      rtqueue_ResponseSimple(rtqueue_Post(rtqueue_New, "/x"), 200, "p1"),
      rtqueue_ResponseSimple(rtqueue_New, 201, "b1")>>

\* The lists a test passes to SetMock.
QueueLists == {<<1>>, <<2, 3>>}

Origins == {OriginA, OriginB}

QRequests == {ReqPost, ReqOther}

\* NewTransport(), after the test has built its queues.
InitQ ==
    /\ heap = QueueObjects
    /\ built0 = QueueObjects
    /\ mocks = <<>>
    /\ unmatched = <<>>
    /\ qpc = [p \in Callers |-> "idle"]
    /\ qreq = [p \in Callers |-> NoRequest]
    /\ qloc = [p \in Callers |-> NoQLocals]
    /\ qret = [p \in Callers |-> NoReturn]
    /\ served = <<>>
    /\ refused = 0
    /\ qcalls = 0
    /\ lastSet = NoSetMock
    /\ nsets = 0
    /\ NoTransport
    /\ NoQueueBuilt
    /\ NoObserver
    /\ NoValues

otherVars == <<transportVars, matchVars, observerVars, valueVars>>

\* A SetMock that adds the list to the one already registered.
SetMockAppends(o, list) ==
    /\ nsets < MaxSetMocks
    /\ \A p \in Callers : qpc[p] \in {"idle", "panic"}
    /\ mocks' = [k \in DOMAIN mocks \cup {o} |->
                    IF k = o THEN Registered(mocks, o) \o list ELSE mocks[k]]
    /\ lastSet' = [origin |-> o, list |-> list, before |-> mocks]
    /\ nsets' = nsets + 1
    /\ UNCHANGED <<heap, unmatched, qpc, qreq, qloc, qret, built0, served, refused,
                   qcalls, otherVars>>

\* qs.queues[origin] = queueList.  A test registers its mocks between the
\* requests it sends: a map written while RoundTrip reads it stops the program.
SetMock(o, list) ==
    /\ nsets < MaxSetMocks
    /\ \A p \in Callers : qpc[p] \in {"idle", "panic"}
    /\ mocks' = [k \in DOMAIN mocks \cup {o} |-> IF k = o THEN list ELSE mocks[k]]
    /\ lastSet' = [origin |-> o, list |-> list, before |-> mocks]
    /\ nsets' = nsets + 1
    /\ UNCHANGED <<heap, unmatched, qpc, qreq, qloc, qret, built0, served, refused,
                   qcalls, otherVars>>

\* RoundTrip(r) is called.
QRoundTrip(p, r) ==
    /\ qpc[p] = "idle"
    /\ qcalls < MaxQCalls
    /\ qpc' = [qpc EXCEPT ![p] = "find"]
    /\ qreq' = [qreq EXCEPT ![p] = r]
    /\ qret' = [qret EXCEPT ![p] = NoReturn]
    /\ qcalls' = qcalls + 1
    /\ UNCHANGED <<heap, mocks, unmatched, qloc, built0, served, refused, lastSet, nsets, otherVars>>

\* q, ok := qs.find(req)
QFind(p) ==
    /\ qpc[p] = "find"
    /\ LET x == rtqueue_find(mocks, heap, qreq[p]) IN
       /\ heap' = x.heap
       /\ qreq' = [qreq EXCEPT ![p] = x.req]
       /\ qloc' = [qloc EXCEPT ![p].q = x.q]
       /\ qpc' = [qpc EXCEPT ![p] = IF x.panic THEN "panic"
                                   ELSE IF x.ok THEN "head" ELSE "append"]
    /\ UNCHANGED <<mocks, unmatched, qret, built0, served, refused, qcalls, lastSet, nsets, otherVars>>

\* append(qs.unmatchRequests, req): the slice is read ...
QAppendRead(p) ==
    /\ qpc[p] = "append"
    /\ qloc' = [qloc EXCEPT ![p].slice = unmatched]
    /\ qpc' = [qpc EXCEPT ![p] = "store"]
    /\ UNCHANGED <<heap, mocks, unmatched, qreq, qret, built0, served, refused, qcalls,
                   lastSet, nsets, otherVars>>

\* ... and qs.unmatchRequests is set to the longer slice; RoundTrip returns
\* the error.
QAppendWrite(p) ==
    /\ qpc[p] = "store"
    /\ unmatched' = Append(qloc[p].slice, qreq[p])
    /\ qret' = [qret EXCEPT ![p] = [resp |-> NoResponse, err |-> ErrNotRegistered]]
    /\ qpc' = [qpc EXCEPT ![p] = "idle"]
    /\ qreq' = [qreq EXCEPT ![p] = NoRequest]
    /\ qloc' = [qloc EXCEPT ![p] = NoQLocals]
    /\ refused' = refused + 1
    /\ UNCHANGED <<heap, mocks, built0, served, qcalls, lastSet, nsets, otherVars>>

\* roundTrip := q.roundTrips[0]; indexing an empty slice panics.
QReadHead(p) ==
    /\ qpc[p] = "head"
    /\ IF Len(heap[qloc[p].q].roundTrips) = 0
       THEN /\ qpc' = [qpc EXCEPT ![p] = "panic"]
            /\ UNCHANGED <<qloc, served>>
       ELSE /\ qloc' = [qloc EXCEPT ![p].roundTrip = heap[qloc[p].q].roundTrips[1]]
            /\ served' = Append(served, [caller |-> p, q |-> qloc[p].q,
                                         f |-> heap[qloc[p].q].roundTrips[1]])
            /\ qpc' = [qpc EXCEPT ![p] = "pop"]
    /\ UNCHANGED <<heap, mocks, unmatched, qreq, qret, built0, refused, qcalls, lastSet,
                   nsets, otherVars>>

\* q.roundTrips[1:]: the slice is read, and slicing an empty one panics ...
QPopRead(p) ==
    /\ qpc[p] = "pop"
    /\ IF Len(heap[qloc[p].q].roundTrips) = 0
       THEN /\ qpc' = [qpc EXCEPT ![p] = "panic"]
            /\ UNCHANGED qloc
       ELSE /\ qloc' = [qloc EXCEPT ![p].slice = Tail(heap[qloc[p].q].roundTrips)]
            /\ qpc' = [qpc EXCEPT ![p] = "shift"]
    /\ UNCHANGED <<heap, mocks, unmatched, qreq, qret, built0, served, refused, qcalls,
                   lastSet, nsets, otherVars>>

\* ... and q.roundTrips is set to its tail.
QPopWrite(p) ==
    /\ qpc[p] = "shift"
    /\ heap' = [heap EXCEPT ![qloc[p].q].roundTrips = qloc[p].slice]
    /\ qpc' = [qpc EXCEPT ![p] = "invoke"]
    /\ UNCHANGED <<mocks, unmatched, qreq, qloc, qret, built0, served, refused, qcalls,
                   lastSet, nsets, otherVars>>

\* return roundTrip(req)
QInvoke(p) ==
    /\ qpc[p] = "invoke"
    /\ qret' = [qret EXCEPT ![p] = Invoke(qloc[p].roundTrip, qreq[p])]
    /\ qpc' = [qpc EXCEPT ![p] = "idle"]
    /\ qreq' = [qreq EXCEPT ![p] = NoRequest]
    /\ qloc' = [qloc EXCEPT ![p] = NoQLocals]
    /\ UNCHANGED <<heap, mocks, unmatched, built0, served, refused, qcalls, lastSet,
                   nsets, otherVars>>

NextQ ==
    \/ \E o \in Origins, list \in QueueLists : SetMock(o, list)
    \/ \E p \in Callers, r \in QRequests : QRoundTrip(p, r)
    \/ \E p \in Callers : QFind(p)
    \/ \E p \in Callers : QAppendRead(p)
    \/ \E p \in Callers : QAppendWrite(p)
    \/ \E p \in Callers : QReadHead(p)
    \/ \E p \in Callers : QPopRead(p)
    \/ \E p \in Callers : QPopWrite(p)
    \/ \E p \in Callers : QInvoke(p)

SpecQ == InitQ /\ [][NextQ]_vars

\* lo.Flatten(lo.Values(qs.queues)): the queues of every list, one after another.
RECURSIVE Flatten(_)
Flatten(m) ==
    IF DOMAIN m = {} THEN <<>>
    ELSE LET o == CHOOSE x \in DOMAIN m : TRUE
         IN m[o] \o Flatten([k \in DOMAIN m \ {o} |-> m[k]])

RECURSIVE SumRoundTrips(_, _, _)
SumRoundTrips(h, ids, i) ==
    IF i > Len(ids) THEN 0 ELSE Len(h[ids[i]].roundTrips) + SumRoundTrips(h, ids, i + 1)

\* RoundTripQueues.Completed
rtqueue_Completed ==
    /\ SumRoundTrips(heap, Flatten(mocks), 1) = 0
    /\ Len(unmatched) = 0

(***************************************************************************)
(* Queue values as Go keeps them.  A RoundTripQueue is a struct of two     *)
(* slices and a slice is a window on a backing array; a builder method has *)
(* a value receiver, so it works on a copy of the struct whose slices      *)
(* still point to the arrays of the value it was called on.                *)
(***************************************************************************)
\* Queue values a test derives in one behaviour from the value it starts with.
MaxValues == 2
\* RoundTrip calls logged by the transports in one behaviour.
MaxServes == 3
\* Queue values passed in one NewTransport call.
MaxQueues == 1

\* A slice header: backing array, offset of the first element, length, capacity.
Slice(arr, off, len, cap) == [arr |-> arr, off |-> off, len |-> len, cap |-> cap]

\* make([]T, 0)
EmptySlice == Slice(0, 0, 0, 0)

\* What a cell of a backing array holds before anything is appended to it.
NilFunc == MatchFunc("nil", "", "")

\* The capacity append gives the new array when one more element does not fit.
growslice(cap) == IF cap = 0 THEN 1 ELSE 2 * cap

\* append(s, x): in place when the capacity allows, else into a new array
\* that holds a copy of the elements.
append(h, s, x) ==
    IF s.len < s.cap
    THEN [arrays |-> [h EXCEPT ![s.arr][s.off + s.len + 1] = x],
          slice |-> [s EXCEPT !.len = @ + 1]]
    ELSE LET newcap == growslice(s.cap)
             a == [k \in 1..newcap |->
                     IF k <= s.len THEN h[s.arr][s.off + k]
                     ELSE IF k = s.len + 1 THEN x ELSE NilFunc]
         IN [arrays |-> Append(h, a),
             slice |-> Slice(Len(h) + 1, 0, s.len + 1, newcap)]

RECURSIVE appendAll(_, _, _, _)
appendAll(h, s, xs, i) ==
    IF i > Len(xs) THEN [arrays |-> h, slice |-> s]
    ELSE LET a == append(h, s, xs[i]) IN appendAll(a.arrays, a.slice, xs, i + 1)

\* s[1:]
Reslice(s) == Slice(s.arr, s.off + 1, s.len - 1, s.cap - 1)

\* The elements a slice shows.
Elems(h, s) == [k \in 1..s.len |-> h[s.arr][s.off + k]]

\* The queue a struct stands for: its match functions and round-trip functions.
Contents(h, q) ==
    [matchFuncs |-> Elems(h, q.matchFuncs),
     roundTripFuncs |-> Elems(h, q.roundTripFuncs)]

\* New(origin): a slice literal of one match function, and make(..., 0).
NewValue(h, origin) ==
    [arrays |-> Append(h, New(origin).matchFuncs),
     q |-> [matchFuncs |-> Slice(Len(h) + 1, 0, 1, 1), roundTripFuncs |-> EmptySlice]]

\* The builder calls a test makes on its values.
ValueCalls ==
    {BuilderCall("Header", "Authorization", "t"),
     BuilderCall("Query", "k", "h"),
     BuilderCall("ResponseSimple", "", "r4"),
     BuilderCall("ResponseSimple", "", "r5")}

NoCall == BuilderCall("", "", "")

\* The functions one builder call appends, in order.
Appended(c) ==
    IF c.name = "ResponseSimple" THEN ResponseSimple(NewAnyOrigin(""), 200, c.val)
    ELSE Build(NewAnyOrigin(""), c)

\* q.Header(...), q.Post(...), q.ResponseSimple(...), ... on the struct q: the
\* appends are made on the copy the receiver is, and the copy is returned.
BuilderOn(h, q, c) ==
    LET x == Appended(c)
        m == appendAll(h, q.matchFuncs, x.matchFuncs, 1)
        r == appendAll(m.arrays, q.roundTripFuncs, x.roundTripFuncs, 1)
    IN [arrays |-> r.arrays, q |-> [matchFuncs |-> m.slice, roundTripFuncs |-> r.slice]]

\* New(origin).A(...).B(...)...: a chain of builder calls.
RECURSIVE Chain(_, _, _)
Chain(x, cs, i) ==
    IF i > Len(cs) THEN x ELSE Chain(BuilderOn(x.arrays, x.q, cs[i]), cs, i + 1)

\* The chains that build the value a test starts with: New alone, New with a
\* method and a path, New with three responses.
BaseChains ==
    {<<>>,
     <<BuilderCall("Post", "", "/x")>>,
     <<BuilderCall("ResponseSimple", "", "r1"), BuilderCall("ResponseSimple", "", "r2"),
       BuilderCall("ResponseSimple", "", "r3")>>}

ValueRequests == {ReqPlain, ReqPost}

NoTransports ==
    /\ tqueues = [t \in Transports |-> <<>>]
    /\ tlogs = [t \in Transports |-> <<>>]
    /\ given = [t \in Transports |-> <<>>]
    /\ drawn = [t \in Transports |-> <<>>]

\* base := New(origin)...: the test holds one queue value.
InitValues ==
    /\ \E cs \in BaseChains :
          LET b == Chain(NewValue(<<>>, OriginA), cs, 1) IN
          /\ arrays = b.arrays
          /\ objs = <<b.q>>
          /\ made = <<Contents(b.arrays, b.q)>>
    /\ held = <<1>>
    /\ derived = <<[base |-> 0, call |-> NoCall]>>
    /\ NoTransports
    /\ NoTransport
    /\ NoQueueBuilt
    /\ NoObserver
    /\ NoMocks

restVars == <<transportVars, matchVars, observerVars, rtqueueVars>>

\* v := held.Header(...), ...: a builder call on a value the test holds; the test
\* keeps the value returned as well.
Derive(i, c) ==
    /\ Len(held) < 1 + MaxValues
    /\ LET x == BuilderOn(arrays, objs[held[i]], c) IN
          /\ arrays' = x.arrays
          /\ objs' = Append(objs, x.q)
          /\ held' = Append(held, Len(objs) + 1)
          /\ made' = Append(made, Contents(x.arrays, x.q))
    /\ derived' = Append(derived, [base |-> i, call |-> c])
    /\ UNCHANGED <<tqueues, tlogs, given, drawn, restVars>>

\* A conversion that hands out the addresses of the caller's own values.
ToSlicePtrShared(os, addrs) == [objs |-> os, ptrs |-> addrs]

\* lo.ToSlicePtr(queues): a pointer to a copy of each element.
ToSlicePtr(os, addrs) ==
    [objs |-> os \o [k \in 1..Len(addrs) |-> os[addrs[k]]],
     ptrs |-> [k \in 1..Len(addrs) |-> Len(os) + k]]

\* The lists of held values a test may pass to NewTransport.
QueueArgs ==
    UNION {[1..n -> 1..Len(held)] : n \in 1..MaxQueues}

\* t := NewTransport(held...)
Register(t, list) ==
    /\ given[t] = <<>>
    /\ LET x == ToSlicePtr(objs, [k \in 1..Len(list) |-> held[list[k]]]) IN
          /\ objs' = x.objs
          /\ tqueues' = [tqueues EXCEPT ![t] = x.ptrs]
    /\ tlogs' = [tlogs EXCEPT ![t] = <<>>]
    /\ given' = [given EXCEPT ![t] = list]
    /\ UNCHANGED <<arrays, held, made, derived, drawn, restVars>>

\* The queues of transport t, as find reads them.
QueuesOf(h, os, t) == [k \in 1..Len(tqueues[t]) |-> Contents(h, os[tqueues[t][k]])]

\* t.RoundTrip(r), from the lock to the return, for calls made one at a time.
Serve(t, r) ==
    /\ given[t] # <<>>
    /\ Len(tlogs[1]) + Len(tlogs[2]) < MaxServes
    /\ LET x == find(QueuesOf(arrays, objs, t), r) IN
          IF x.err # "" THEN UNCHANGED <<objs, tlogs, drawn>>
          ELSE IF ~x.found
          THEN /\ tlogs' = [tlogs EXCEPT ![t] = Append(@, requestLog(FALSE, x.req))]
               /\ UNCHANGED <<objs, drawn>>
          ELSE LET a == tqueues[t][x.q]
                   roundTrip == Elems(arrays, objs[a].roundTripFuncs)[1]
               IN /\ tlogs' = [tlogs EXCEPT ![t] = Append(@, requestLog(TRUE, x.req))]
                  /\ objs' = [objs EXCEPT ![a].roundTripFuncs = Reslice(@)]
                  /\ drawn' = [drawn EXCEPT ![t] = Append(@, [q |-> x.q, f |-> roundTrip])]
    /\ UNCHANGED <<arrays, held, made, derived, tqueues, given, restVars>>

NextValues ==
    \/ \E i \in 1..Len(held), c \in ValueCalls : Derive(i, c)
    \/ \E t \in Transports, list \in QueueArgs : Register(t, list)
    \/ \E t \in Transports, r \in ValueRequests : Serve(t, r)

SpecValues == InitValues /\ [][NextValues]_vars

(***************************************************************************)
(* What the claims speak of.                                               *)
(***************************************************************************)
Exhausted(q) == Len(q.roundTripFuncs) = 0

\* A criterion holds for a request: it answers true, without an error.
Accepts(f, r) == Apply(f, r).err = "" /\ Apply(f, r).m

\* All criteria of a queue hold for a request.
Satisfied(q, r) == \A k \in 1..Len(q.matchFuncs) : Accepts(q.matchFuncs[k], r)

\* The functions handed out from queue i, in the order they were handed out.
RECURSIVE HandedFromAt(_, _)
HandedFromAt(i, k) ==
    IF k > Len(handed) THEN <<>>
    ELSE (IF handed[k].q = i THEN <<handed[k].f>> ELSE <<>>) \o HandedFromAt(i, k + 1)

HandedFrom(i) == HandedFromAt(i, 1)

\* The last function handed to caller p.
LastHandedTo(p) ==
    LET K == {k \in 1..Len(handed) : handed[k].caller = p}
    IN handed[CHOOSE k \in K : \A j \in K : j <= k]

Returned(p) == pc[p] = "idle" /\ ret[p] # NoReturn

Quiescent == \A p \in Callers : pc[p] = "idle"

\* C1: FIFO ordering.  The functions handed out from a queue are, in order, the
\* first functions enqueued on it (the k-th request that selects the queue is
\* handed the k-th function), whatever other requests come in between, and
\* the response a caller gets is the one the function handed to it produces.
C1_FifoOrder ==
    /\ \A i \in 1..Len(setup) :
          /\ Len(HandedFrom(i)) <= Len(setup[i].roundTripFuncs)
          /\ HandedFrom(i) = SubSeq(setup[i].roundTripFuncs, 1, Len(HandedFrom(i)))
    /\ \A p \in Callers :
          Returned(p) /\ ret[p].err = "" =>
             /\ ret[p].resp.StatusCode = LastHandedTo(p).f.statusCode
             /\ ret[p].resp.Body = LastHandedTo(p).f.body

\* C1 witness: a queue of three functions has handed out all three, with a
\* request that did not select it logged between the first and the last.
C1_Witness ==
    /\ Quiescent
    /\ \E i \in 1..Len(setup) :
          /\ Len(setup[i].roundTripFuncs) = 3
          /\ HandedFrom(i) = setup[i].roundTripFuncs
          /\ Len(requestLogs) = 4
          /\ \E n \in 2..3 : ~Satisfied(setup[i], requestLogs[n].request)

\* Every queue of the transport matches every request the client sends.
AllMatchAll == \A i \in 1..Len(setup) : \A r \in pool : Satisfied(setup[i], r)

NoDuplicates(seq) == \A j, k \in 1..Len(seq) : j # k => seq[j] # seq[k]

\* Every function enqueued at construction has been handed out exactly once.
EachConsumedOnce ==
    /\ Len(handed) = SumLen(setup, 1)
    /\ NoDuplicates([k \in 1..Len(handed) |-> <<handed[k].q, handed[k].f>>])
    /\ \A i \in 1..Len(setup) : HandedFrom(i) = setup[i].roundTripFuncs

\* C2: concurrency safety.  When as many calls as the transport holds functions
\* have run, in any interleaving, against queues that all match every request,
\* then all calls succeeded, each function was consumed exactly once, the log
\* holds one record per call, numbered 1..N, and Completed() is true.
C2_ConcurrentDrain ==
    LET N == SumLen(setup, 1) IN
    (AllMatchAll /\ ncalls = N /\ nret = N) =>
        /\ nerr = 0
        /\ EachConsumedOnce
        /\ Len(requestLogs) = N
        /\ \A n \in 1..N : requestLogs[n].matched
        /\ DOMAIN RequestLogLines = 1..N
        /\ NoDuplicates(RequestLogLines)
        /\ Completed

\* C2 witness: the N calls have returned, and two callers were each handed a
\* function.
C2_Witness ==
    /\ AllMatchAll
    /\ ncalls = SumLen(setup, 1)
    /\ nret = ncalls
    /\ \E j, k \in 1..Len(handed) : handed[j].caller # handed[k].caller

InDequeue(p) == pc[p] \in {"find", "log", "head", "pop", "unlock"}

\* C3: mutual exclusion.  No function is handed to two callers, and at most
\* one caller, the holder of the mutex, is between find and the pop.
C3_MutualExclusion ==
    /\ NoDuplicates([k \in 1..Len(handed) |-> <<handed[k].q, handed[k].f>>])
    /\ \A p, o \in Callers : InDequeue(p) /\ InDequeue(o) => p = o
    /\ \A p \in Callers : InDequeue(p) => mu = p
    /\ \A p \in Callers : pc[p] # "panic"

\* C3 witness: more callers than functions: every queue is empty, one caller is
\* still running the function it was handed and another finds nothing left.
C3_Witness ==
    \E p, o \in Callers :
        /\ pc[p] = "invoke"
        /\ pc[o] = "log" /\ ~loc[o].found
        /\ SumLen(queues, 1) = 0
        /\ Satisfied(setup[1], pre[o].req)

\* C4: Completed() is true exactly when every queue is empty and no record of
\* the log is unmatched.
C4_Completed ==
    Completed <=>
        /\ \A i \in 1..Len(queues) : Exhausted(queues[i])
        /\ \A n \in 1..Len(requestLogs) : requestLogs[n].matched

\* C4 witness: every queue has been drained, yet a stray request keeps
\* Completed() false.
C4_Witness ==
    /\ Quiescent
    /\ nret > 0
    /\ \A i \in 1..Len(queues) : Exhausted(queues[i])
    /\ \E n \in 1..Len(requestLogs) : ~requestLogs[n].matched
    /\ ~Completed

\* C5 as claimed: side effects per intercept.  Every call that has run dequeue
\* to its end, whatever its outcome (matched, not matched, failed with an
\* error), has appended exactly one record to the log, and every successful
\* call has popped exactly one function from one queue.
C5_AsClaimed ==
    /\ Len(requestLogs) =
          nret + Cardinality({p \in Callers : pc[p] \in {"head", "pop", "unlock", "invoke"}})
    /\ Quiescent => SumLen(setup, 1) - SumLen(queues, 1) = nret - nerr
    /\ Quiescent => Len(handed) = nret - nerr

\* The queues of qs that are not exhausted and whose criteria all hold for r.
Candidates(qs, r) == {i \in 1..Len(qs) : ~Exhausted(qs[i]) /\ Satisfied(qs[i], r)}

First(S) == CHOOSE i \in S : \A j \in S : i <= j

\* Evaluating the criteria of q in order for r ends in a criterion's error.
Fails(q, r) ==
    \E k \in 1..Len(q.matchFuncs) :
        /\ Apply(q.matchFuncs[k], r).err # ""
        /\ \A j \in 1..(k - 1) : Accepts(q.matchFuncs[j], r)

\* A scan of qs for r meets a failing queue before any candidate.
ScanFails(qs, r) ==
    \E i \in 1..Len(qs) :
        /\ ~Exhausted(qs[i])
        /\ Fails(qs[i], r)
        /\ \A j \in Candidates(qs, r) : i < j

\* Caller p is about to leave dequeue: its locals hold what dequeue returns, and
\* pre[p] holds the queues, the log and the request it entered with.
Leaving(p) == pc[p] = "unlock"

\* An exhausted queue matching the request stands before a matching queue that
\* is not exhausted.
ExhaustedBeforeCandidate(qs, r) ==
    \E i, j \in 1..Len(qs) :
        /\ i < j
        /\ Exhausted(qs[i]) /\ Satisfied(qs[i], r)
        /\ j \in Candidates(qs, r)

\* C6 as claimed: an exhausted queue is never selected, and whenever an
\* exhausted queue and a later queue that is not exhausted both have their
\* criteria satisfied, the request is served, from the first such queue.
C6_AsClaimed ==
    \A p \in Callers :
        Leaving(p) =>
            /\ loc[p].found => ~Exhausted(pre[p].queues[loc[p].q])
            /\ ExhaustedBeforeCandidate(pre[p].queues, pre[p].req) =>
                  /\ loc[p].found
                  /\ loc[p].q = First(Candidates(pre[p].queues, pre[p].req))

\* C6 (amended): an exhausted queue is never selected, and whenever an
\* exhausted queue and a later queue that is not exhausted both have their
\* criteria satisfied, the request is served, from the first such queue,
\* unless the scan meets before it a queue, not exhausted, with a criterion
\* that fails with an error; the call then returns that error.
C6_ExhaustionSkip ==
    \A p \in Callers :
        Leaving(p) =>
            /\ loc[p].found => ~Exhausted(pre[p].queues[loc[p].q])
            /\ ExhaustedBeforeCandidate(pre[p].queues, pre[p].req) =>
                  IF ScanFails(pre[p].queues, pre[p].req)
                  THEN ~loc[p].found /\ loc[p].err \in {ErrMatcher, ErrRead}
                  ELSE /\ loc[p].found
                       /\ loc[p].q = First(Candidates(pre[p].queues, pre[p].req))
                       /\ loc[p].roundTrip = pre[p].queues[loc[p].q].roundTripFuncs[1]

\* C6 witness: a call was served from a queue standing behind an exhausted
\* queue with satisfied criteria.
C6_Witness ==
    \E p \in Callers :
        /\ Leaving(p)
        /\ loc[p].found
        /\ \E i \in 1..(loc[p].q - 1) :
              Exhausted(pre[p].queues[i]) /\ Satisfied(pre[p].queues[i], pre[p].req)

\* C7: frame of a queue that does not match.  The functions of a queue change
\* only by the pop of a call whose request the queue's composite matcher
\* accepted: a call with a request the matcher rejects leaves the queue's
\* functions as they were, whether or not another queue serves the request.
C7_UnmatchedQueueUntouched ==
    [][\A i \in 1..Len(queues) :
          queues'[i].roundTripFuncs # queues[i].roundTripFuncs =>
              \E p \in Callers :
                  /\ pc[p] = "pop" /\ pc'[p] = "unlock"
                  /\ loc[p].q = i
                  /\ match(queues[i], pre[p].req).m
                  /\ \A j \in 1..Len(queues) : j # i => queues'[j] = queues[j]]_vars

\* C7 witness: a call served by one queue leaves dequeue while a queue whose
\* matcher rejects its request still holds the functions it held before.
C7_Witness ==
    \E p \in Callers :
        /\ Leaving(p)
        /\ loc[p].found
        /\ \E i \in 1..Len(queues) :
              /\ ~match(pre[p].queues[i], pre[p].req).m
              /\ ~Exhausted(queues[i])
              /\ queues[i] = pre[p].queues[i]

\* What the claims about a call with no candidate queue conclude: dequeue
\* returns 'mock is not registered' and no function, has appended one record
\* with matched = false for the request, and has left every queue as it was.
NotRegisteredOutcome(p) ==
    /\ Leaving(p) =>
          /\ loc[p].err = ErrNotRegistered
          /\ loc[p].roundTrip = NoFunc
          /\ requestLogs = Append(pre[p].requestLogs, requestLog(FALSE, pre[p].req))
          /\ queues = pre[p].queues
    /\ Returned(p) => ret[p] = [resp |-> NoResponse, err |-> ErrNotRegistered]

OriginOf(r) == r.Scheme \o "://" \o r.Host

\* No queue of the transport was built for the origin of r.
OriginUnregistered(r) ==
    /\ r # NoRequest
    /\ \A i \in 1..Len(setup) :
          \A k \in 1..Len(setup[i].matchFuncs) :
              setup[i].matchFuncs[k].kind = "origin" =>
                  setup[i].matchFuncs[k].val # OriginOf(r)

ExpectedLine(n, r, matched) ==
    ToString(n) \o ": " \o r.Method \o " " \o r.Scheme \o "://" \o r.Host \o r.Path
    \o (IF Len(r.Query) = 0 THEN "" ELSE "?" \o EncodeFrom(r.Query, 1))
    \o (IF matched THEN "" ELSE " (not matched)")

\* C10 as claimed: audit log order.  The n-th record of the log is the n-th
\* call in the order the calls entered the critical section, and
\* RequestLogString renders line n as "<n>: <METHOD> <full URL>", followed by
\* " (not matched)" exactly when that call was not matched.
C10_AsClaimed ==
    /\ Len(requestLogs) <= Len(arrived)
    /\ \A n \in 1..Len(requestLogs) :
          /\ requestLogs[n].request.Method = arrived[n].Method
          /\ URLString(requestLogs[n].request) = URLString(arrived[n])
          /\ RequestLogLines[n] = ExpectedLine(n, arrived[n], requestLogs[n].matched)

\* The part of C10 the code keeps: a step appends at most one record, the
\* record of a call at its log append, and changes no earlier record; and
\* every line is rendered from its own record.
C10_AppendOnly ==
    [][\/ requestLogs' = requestLogs
       \/ \E p \in Callers :
             /\ pc[p] = "log"
             /\ requestLogs' = Append(requestLogs, requestLog(loc[p].found, pre[p].req))
             /\ \A n \in 1..Len(requestLogs') :
                   RequestLogLines'[n] =
                      ExpectedLine(n, requestLogs'[n].request, requestLogs'[n].matched)]_vars

\* What the selection-order claim concludes of a call leaving dequeue: it was
\* handed the head of the earliest candidate queue, that queue lost its head
\* and every other queue is as it was.
ServedFromFirst(p) ==
    LET c == First(Candidates(pre[p].queues, pre[p].req)) IN
    /\ loc[p].found
    /\ loc[p].q = c
    /\ loc[p].roundTrip = pre[p].queues[c].roundTripFuncs[1]
    /\ queues[c].roundTripFuncs = Tail(pre[p].queues[c].roundTripFuncs)
    /\ \A j \in 1..Len(queues) : j # c => queues[j] = pre[p].queues[j]

Several(S) == Cardinality(S) >= 2

\* C12 as claimed: selection order.  When several queues that are not
\* exhausted all have their criteria satisfied by a request, the call pops
\* the head of the one registered earliest and leaves the others untouched.
C12_AsClaimed ==
    \A p \in Callers :
        Leaving(p) /\ Several(Candidates(pre[p].queues, pre[p].req)) =>
            ServedFromFirst(p)

\* C12 (amended): selection order.  When several queues that are not
\* exhausted all have their criteria satisfied by a request, the call pops
\* the head of the one registered earliest and leaves the others untouched,
\* unless the scan meets before it a queue, not exhausted, with a criterion
\* that fails with an error: the call then fails with that error and pops
\* nothing.  A queue is served only when every matching queue registered
\* before it is exhausted.
C12_SelectionOrder ==
    \A p \in Callers :
        Leaving(p) =>
            /\ Several(Candidates(pre[p].queues, pre[p].req)) =>
                  IF ScanFails(pre[p].queues, pre[p].req)
                  THEN /\ ~loc[p].found
                       /\ loc[p].err \in {ErrMatcher, ErrRead}
                       /\ queues = pre[p].queues
                  ELSE ServedFromFirst(p)
            /\ loc[p].found =>
                  \A i \in 1..(loc[p].q - 1) :
                      Satisfied(pre[p].queues[i], pre[p].req) => Exhausted(pre[p].queues[i])

\* C12 witness: a call is served from the earlier of two matching queues that
\* both still hold functions, and the later one is left as it was.
C12_Witness ==
    \E p \in Callers :
        /\ Leaving(p)
        /\ loc[p].found
        /\ \E j \in Candidates(pre[p].queues, pre[p].req) :
              /\ loc[p].q < j
              /\ queues[j] = pre[p].queues[j]
              /\ ~Exhausted(queues[j])

\* The error a scan of qs for r fails with: that of the first failing
\* criterion of the first queue, not exhausted, that fails.
ScanError(qs, r) ==
    LET i == First({j \in 1..Len(qs) : ~Exhausted(qs[j]) /\ Fails(qs[j], r)})
        k == First({n \in 1..Len(qs[i].matchFuncs) : Apply(qs[i].matchFuncs[n], r).err # ""})
    IN Apply(qs[i].matchFuncs[k], r).err

\* C14: matcher failure.  When a criterion evaluated during the scan fails
\* with an error, the call never reaches the log append, the pop or the
\* invocation of a function; dequeue returns that error and no function, with
\* every queue as it was, and RoundTrip returns that error, which is not
\* 'mock is not registered', and no response.
C14_MatcherFailure ==
    \A p \in Callers :
        ScanFails(pre[p].queues, pre[p].req) =>
            LET e == ScanError(pre[p].queues, pre[p].req) IN
            /\ e \in {ErrRead, ErrMatcher}
            /\ pc[p] \in {"find", "unlock", "idle"}
            /\ Leaving(p) =>
                  /\ ~loc[p].found
                  /\ loc[p].err = e
                  /\ loc[p].roundTrip = NoFunc
                  /\ queues = pre[p].queues
            /\ Returned(p) => ret[p] = [resp |-> NoResponse, err |-> e]

\* C14 witness: a call has returned the error of a criterion although a
\* queue behind the failing one would have served its request.
C14_Witness ==
    \E p \in Callers :
        /\ Returned(p)
        /\ ScanFails(pre[p].queues, pre[p].req)
        /\ Candidates(pre[p].queues, pre[p].req) # {}
        /\ ret[p].err = ErrRead

\* What a reader of the body stream b gets: the content, and the error if any.
Content(b) == [got |-> ReadAll(b).got, err |-> ReadAll(b).err]

Readable(b) == ReadAll(b).err = ""

\* The body criteria of the transport's queues.
BodyCriteria ==
    {f \in UNION {{setup[i].matchFuncs[k] : k \in 1..Len(setup[i].matchFuncs)} :
                     i \in 1..Len(setup)} : f.kind = "body"}

\* Queue i of qs has its body criterion evaluated for r, and it rejects r.
BodyRejects(qs, i, r) ==
    /\ ~Exhausted(qs[i])
    /\ \E k \in 1..Len(qs[i].matchFuncs) :
          /\ qs[i].matchFuncs[k].kind = "body"
          /\ \A j \in 1..(k - 1) : Accepts(qs[i].matchFuncs[j], r)
          /\ Apply(qs[i].matchFuncs[k], r).err = ""
          /\ ~Apply(qs[i].matchFuncs[k], r).m

\* C16: body restoration.  A body criterion applied to a request whose body
\* can be read leaves a body that reads as the same content, matched or not;
\* so after the scan the request holds its full original body, whatever
\* criteria and queues the scan evaluated, and the function finally invoked
\* is passed a request with that body.
C16_BodyRestored ==
    /\ \A f \in BodyCriteria : \A r \in pool :
          Readable(r.Body) => Content(Apply(f, r).req.Body) = Content(r.Body)
    /\ \A p \in Callers :
          Readable(pre[p].req.Body) =>
             /\ pc[p] \in {"log", "head", "pop", "unlock", "invoke"} =>
                   Content(req[p].Body) = Content(pre[p].req.Body)
             /\ Returned(p) /\ ret[p].err = "" =>
                   Content(ret[p].resp.Request.Body) = Content(pre[p].req.Body)

\* C16 witness: a call with a body that is not empty was served, and got its
\* response, after the body criterion of a queue earlier in the scan had
\* read the body and rejected the request.
C16_Witness ==
    \E p \in Callers :
        /\ Returned(p) /\ ret[p].err = ""
        /\ Content(pre[p].req.Body).got = "z"
        /\ Content(ret[p].resp.Request.Body).got = "z"
        /\ \E i \in 1..(LastHandedTo(p).q - 1) : BodyRejects(pre[p].queues, i, pre[p].req)

\* The records of the log with matched = true.
NMatched == Cardinality({n \in 1..Len(requestLogs) : requestLogs[n].matched})

\* The callers between the append of their matched record and their pop.
BetweenLogAndPop == {p \in Callers : pc[p] \in {"head", "pop"}}

C19_StraySticky ==
    [][/\ Len(unmatchRequests) > 0 => ~Completed'
       /\ Len(unmatchRequests') >= Len(unmatchRequests)
       /\ SumLen(queues, 1) = 0 /\ ~Completed => ~Completed']_vars

\* C19 witness: a request was recorded as unmatched, two calls after it
\* were served, and Completed() is false.
C19_Witness ==
    /\ Quiescent
    /\ \E i \in 1..Len(queues) : Exhausted(queues[i]) /\ ~Exhausted(setup[i])
    /\ \E n \in 1..Len(requestLogs) :
          /\ ~requestLogs[n].matched
          /\ \A k \in (n + 1)..Len(requestLogs) : requestLogs[k].matched
          /\ Len(requestLogs) >= n + 2
    /\ ~Completed

\* C13: the function popped is invoked outside the mutex.  A caller that is
\* running its function, or has returned from dequeue on any path (matched,
\* not matched, matcher error), does not hold the mutex: the holder is always
\* a caller inside dequeue, whose steps after the scan wait for nothing and
\* end in the release of the mutex, so a finished dequeue blocks nobody.
\* While a function is running and the mutex is free, any idle caller can
\* enter dequeue.
C13_InvokedOutsideLock ==
    /\ \A p \in Callers : pc[p] \in {"idle", "invoke", "panic"} => mu # p
    /\ mu # 0 => mu \in Callers /\ InDequeue(mu)
    /\ \A p \in Callers :
          /\ pc[p] \in {"log", "head", "pop"} =>
                ENABLED (Log(p) \/ ReadHead(p) \/ Pop(p))
          /\ pc[p] = "unlock" => ENABLED (Unlock(p) /\ mu' = 0)
    /\ \A p, o \in Callers :
          (pc[p] = "invoke" /\ pc[o] = "idle" /\ mu = 0 /\ ncalls < MaxCalls) =>
              \A r \in pool : ENABLED Lock(o, r)

\* C13 witness: while the function handed to one caller has not yet returned,
\* another caller has taken the mutex after it, been handed a function and
\* returned.
C13_Witness ==
    \E p, o \in Callers :
        /\ pc[p] = "invoke"
        /\ Returned(o) /\ ret[o].err = ""
        /\ Len(pre[o].requestLogs) > Len(pre[p].requestLogs)
        /\ requestLogs[Len(pre[o].requestLogs)].matched

\* The queue that New(origin) and the builder calls cs, made in order, produce.
RECURSIVE BuildAll(_, _, _)
BuildAll(q, cs, i) == IF i > Len(cs) THEN q ELSE BuildAll(Build(q, cs[i]), cs, i + 1)

\* The builder calls cs in every order.
Orders(cs) ==
    {[i \in 1..Len(cs) |-> cs[f[i]]] : f \in Permutations(1..Len(cs))}

\* The queue as New(origin) left it, before any builder call.
Base == [built EXCEPT !.matchFuncs = <<built.matchFuncs[1]>>]

Matched == verdict # NoVerdict

\* C15 as claimed: composite match.  A queue matches a request exactly when
\* every one of its criteria holds for it; what match returns does not depend
\* on the order in which the criteria were declared; and a queue with no
\* criterion but its origin matches every request to that origin and no
\* request to another.
C15_AsClaimed ==
    Matched =>
        /\ verdict.m <=> Satisfied(built, probe)
        /\ \A cs \in Orders(declared) :
              /\ match(BuildAll(Base, cs, 1), probe).m = verdict.m
              /\ match(BuildAll(Base, cs, 1), probe).err = verdict.err
        /\ declared = <<>> =>
              /\ verdict.err = ""
              /\ verdict.m <=> OriginOf(probe) = built.matchFuncs[1].val

\* C15 (amended): composite match.  A queue matches a request exactly when
\* every one of its criteria holds for it, and whether it matches does not
\* depend on the order in which the criteria were declared.  When it does
\* not match, the order decides between a plain rejection and an error:
\* match returns the error of a failing criterion exactly when every
\* criterion declared before it holds.  A queue with no criterion but its
\* origin matches every request to that origin and no request to another.
C15_CompositeMatch ==
    Matched =>
        /\ verdict.m <=> Satisfied(built, probe)
        /\ verdict.m => verdict.err = ""
        /\ \A cs \in Orders(declared) :
              LET q == BuildAll(Base, cs, 1) IN
              /\ match(q, probe).m = verdict.m
              /\ match(q, probe).err # "" <=> Fails(q, probe)
        /\ declared = <<>> =>
              /\ verdict.err = ""
              /\ verdict.m <=> OriginOf(probe) = built.matchFuncs[1].val

\* C15 witness: a queue with three declared criteria, one of them on the
\* body, matched a request.
C15_Witness ==
    /\ Matched
    /\ verdict.m
    /\ Len(declared) = 3
    /\ \E k \in 1..Len(built.matchFuncs) : built.matchFuncs[k].kind = "body"

\* C20 as claimed: Completed() run concurrently with RoundTrip calls returns
\* the value the completed-condition (all queues empty and no unmatched
\* record) had at some instant between its invocation and its return.
C20_AsClaimed == (opc = "idle" /\ oret # "") => oret \in seen

\* The queue addresses in a list.
Elements(list) == {list[i] : i \in 1..Len(list)}

QQuiescent == \A p \in Callers : qpc[p] = "idle"

\* C11: SetMock replaces.  A SetMock call leaves exactly the list passed
\* registered for the origin and every other origin's list, every queue and
\* the unmatched requests as they were; after it a request to the origin is
\* served from a queue of the new list or not at all, and Completed() is
\* true exactly when the queues of the new list and of the other origins'
\* lists are empty and no request is unmatched, whatever is left in the
\* queues of the list replaced.  A call is always served from a queue of the
\* list registered for its origin.
C11_SetMockReplaces ==
    /\ [](\A p \in Callers :
             qpc[p] \in {"head", "pop", "shift", "invoke"} =>
                 qloc[p].q \in Elements(Registered(mocks, rtqueue_origin(qreq[p]))))
    /\ [][nsets' # nsets =>
            LET o == lastSet'.origin
                l == lastSet'.list
            IN /\ DOMAIN mocks' = DOMAIN mocks \cup {o}
               /\ mocks'[o] = l
               /\ \A k \in DOMAIN mocks \ {o} : mocks'[k] = mocks[k]
               /\ heap' = heap
               /\ unmatched' = unmatched
               /\ \A r \in QRequests :
                     rtqueue_origin(r) = o =>
                         rtqueue_find(mocks', heap', r).q \in Elements(l) \cup {0}
               /\ rtqueue_Completed' <=>
                     /\ \A q \in Elements(l) : Len(heap[q].roundTrips) = 0
                     /\ \A k \in DOMAIN mocks \ {o} :
                           \A q \in Elements(mocks[k]) : Len(heap[q].roundTrips) = 0
                     /\ Len(unmatched) = 0]_vars

\* C11 witness: an origin was registered again while a queue of its first
\* list still held an entry; requests to it were then served from the new
\* list until that was empty, and Completed() is true with the entry of the
\* replaced list still there.
C11_Witness ==
    /\ QQuiescent
    /\ nsets >= 2
    /\ lastSet.origin \in DOMAIN lastSet.before
    /\ \E q \in Elements(lastSet.before[lastSet.origin]) :
          /\ q \notin Elements(mocks[lastSet.origin])
          /\ Len(heap[q].roundTrips) > 0
    /\ \E k \in 1..Len(served) : served[k].q \in Elements(lastSet.list)
    /\ rtqueue_Completed

\* The entries served from the queue at address q, in the order served.
RECURSIVE ServedFromAt(_, _)
ServedFromAt(q, k) ==
    IF k > Len(served) THEN <<>>
    ELSE (IF served[k].q = q THEN <<served[k].f>> ELSE <<>>) \o ServedFromAt(q, k + 1)

\* C17 as claimed: RoundTripQueues is safe under concurrent RoundTrip calls.
\* In every interleaving no entry is served to two callers, no call panics,
\* and once the calls have returned every entry built into a queue has been
\* served or is still in it, and every call that found no queue has left its
\* request in the unmatched list.
C17_AsClaimed ==
    /\ NoDuplicates([k \in 1..Len(served) |-> <<served[k].q, served[k].f>>])
    /\ \A p \in Callers : qpc[p] # "panic"
    /\ QQuiescent =>
          /\ \A q \in 1..Len(built0) :
                built0[q].roundTrips = ServedFromAt(q, 1) \o heap[q].roundTrips
          /\ Len(unmatched) = refused


\* The queue that held value i stands for now.
HeldQueue(i) == Contents(arrays, objs[held[i]])

\* Held values i and j were obtained by two builder calls on the same base.
Siblings(i, j) == i # j /\ derived[i].base # 0 /\ derived[i].base = derived[j].base

\* C21: builder value semantics.  Every queue value the test has obtained,
\* the base and the siblings derived from one base included, still has the
\* match functions and round-trip functions it had when its builder call
\* returned it, whatever builder calls were made since.
C21_AsClaimed == \A i \in 1..Len(held) : HeldQueue(i) = made[i]

\* The number of entries transport t has handed out from its k-th queue.
DrawnFrom(t, k) == Cardinality({n \in 1..Len(drawn[t]) : drawn[t][n].q = k})

\* The addresses of the structs the test holds.
HeldAddrs == {held[i] : i \in 1..Len(held)}

\* The addresses of the structs transport t serves from.
QueueAddrs(t) == {tqueues[t][k] : k \in 1..Len(tqueues[t])}

\* C22: registration isolation.  The structs a transport serves from are its
\* own: none is a value the test holds and none is shared with the other
\* transport.  A value the test holds keeps the number of entries it was built
\* with, however many requests the transports have served.  Each transport's
\* queue holds the entries of the value passed for it less the entries this
\* transport handed out from it, whatever the other transport handed out, and
\* a RoundTrip call on one transport changes no queue of the other transport
\* and no value the test holds.
C22_RegistrationIsolation ==
    /\ [](/\ \A t \in Transports :
                /\ QueueAddrs(t) \cap HeldAddrs = {}
                /\ \A u \in Transports \ {t} : QueueAddrs(t) \cap QueueAddrs(u) = {}
          /\ \A i \in 1..Len(held) :
                objs[held[i]].roundTripFuncs.len = Len(made[i].roundTripFuncs)
          /\ \A t \in Transports : \A k \in 1..Len(tqueues[t]) :
                objs[tqueues[t][k]].roundTripFuncs.len
                   = Len(made[given[t][k]].roundTripFuncs) - DrawnFrom(t, k))
    /\ [][\A t \in Transports :
             tlogs'[t] # tlogs[t] =>
                /\ \A u \in Transports \ {t} :
                      QueuesOf(arrays', objs', u) = QueuesOf(arrays, objs, u)
                /\ \A i \in 1..Len(held) :
                      Contents(arrays', objs'[held[i]]) = Contents(arrays, objs[held[i]])]_vars

\* The same held value of three entries was passed to both transports; the
\* first has handed out two of its entries and the second one, the same first
\* entry the first transport handed out, and the held value still has three.
C22_Witness ==
    /\ given[1] # <<>>
    /\ given[1] = given[2]
    /\ Len(made[given[1][1]].roundTripFuncs) = 3
    /\ DrawnFrom(1, 1) = 2
    /\ DrawnFrom(2, 1) = 1
    /\ drawn[2][1].f = drawn[1][1].f
    /\ objs[held[given[1][1]]].roundTripFuncs.len = 3
    /\ objs[tqueues[1][1]].roundTripFuncs.len = 1
    /\ objs[tqueues[2][1]].roundTripFuncs.len = 2
=============================================================================
